---- MODULE Spec2Model ----
(***************************************************************************)
(* Model of BrinqaClient (src/src/index.ts): the cached bearer session     *)
(* (accessToken, tokenExpiry), authenticate / getAuthHeaders, and the two  *)
(* request paths executeGraphQL and connectApiRequest.                     *)
(*                                                                         *)
(* Calls run on Node's single thread: a call's code runs without           *)
(* interruption from one network await to the next, so every action below  *)
(* is the code between two awaits of one call.  Several calls may be in    *)
(* flight at once.                                                         *)
(*                                                                         *)
(* Time is in milliseconds, as Date.now().  Strings are TLA+ strings; a    *)
(* message built by a template literal is the sequence of its pieces.      *)
(***************************************************************************)
EXTENDS Integers, Sequences, FiniteSets, TLC

\* ---------------------------------------------------------------- bounds
MaxTicks == 2          \* clock advances explored
TickMs == 1000         \* size of one clock advance
CountCap == 3          \* per-call counters saturate here
MaxErrors == 2         \* longest errors list in a GraphQL response

\* two callers, whose calls may be in flight together
Calls == {1, 2}

\* ------------------------------------------------------ values of the code
Null == "<null>"               \* JavaScript null
Undefined == "<undefined>"     \* JavaScript undefined

\* JavaScript truthiness of a string | null | undefined value
Truthy(v) == v # Null /\ v # Undefined /\ v # ""

\* a || b
OrElse(a, b) == IF Truthy(a) THEN a ELSE b

SafetyMarginSec == 300
DayMs == 24 * 60 * 60 * 1000

\* process.env.X || "" : unset and empty both give ""
EnvValues(v) == {"", v}

\* what the login endpoint may return
Tokens == {"t1", "t2"}
Lifetimes == {0, 300, 302}     \* expires_in, seconds

\* error.response?.data?.message of a failed request
RemoteMessages == {Undefined, "", "remote-msg"}
TransportMessage == "transport-msg"  \* error.message of an AxiosError

\* HTTP status of a failed request; NoResponse: error.response is undefined
NoResponse == 0
ErrorStatuses == {401, 500, NoResponse}
AxiosErrors ==
    { e \in [status : ErrorStatuses, remote : RemoteMessages] :
        e.status = NoResponse => e.remote = Undefined }

\* body of a 2xx GraphQL response; errors <<>> stands for absent or []
ErrorTexts == {"e1", "e2"}
RECURSIVE SeqsUpTo(_, _)
SeqsUpTo(S, n) ==
    IF n = 0 THEN {<<>>}
    ELSE LET shorter == SeqsUpTo(S, n - 1)
         IN shorter \cup { Append(s, x) : s \in shorter, x \in S }
GraphQLBodies == [data : {Undefined, "payload"}, errors : SeqsUpTo(ErrorTexts, MaxErrors)]

\* Array.prototype.join
RECURSIVE Join(_, _)
Join(parts, sep) ==
    IF Len(parts) = 0 THEN <<>>
    ELSE IF Len(parts) = 1 THEN <<parts[1]>>
    ELSE <<parts[1], sep>> \o Join(Tail(parts), sep)

Inc(n) == IF n < CountCap THEN n + 1 ELSE CountCap

\* ------------------------------------------------------------------ state
VARIABLES
    env,           \* BRINQA_API_KEY, BRINQA_USERNAME, BRINQA_PASSWORD
    accessToken,   \* BrinqaClient.accessToken
    tokenExpiry,   \* BrinqaClient.tokenExpiry
    now,           \* Date.now()
    ticks,         \* clock advances so far
    issued,        \* the last successful login: time, access_token, expires_in
    pc,            \* per call: "idle", "login", "request", "done"
    tool,          \* per call: "graphql" (executeGraphQL) or "connect" (connectApiRequest)
    headers,       \* per call: headers of the request in flight
    outcome,       \* per call: value returned or Error thrown
    reply,         \* per call: the network answer the call handled last
    stats,         \* per call: what the call has done so far
    name,          \* per call: the tool the caller invoked
    args,          \* per call: the arguments of the tool call
    query          \* per call: the document or body handed to the client

vars == <<env, accessToken, tokenExpiry, now, ticks, issued, pc, tool, headers, outcome, reply, stats,
          name, args, query>>

NoHeaders == [Authorization |-> <<>>, XApiKey |-> Undefined]
NoOutcome == [threw |-> FALSE, value |-> <<>>]
NoReply == [kind |-> "none", status |-> 0, remote |-> Undefined, data |-> Undefined, errors |-> <<>>]
OkReply(data, errors) ==
    [kind |-> "ok", status |-> 200, remote |-> Undefined, data |-> data, errors |-> errors]
ErrorReply(e) ==
    [kind |-> "error", status |-> e.status, remote |-> e.remote, data |-> Undefined, errors |-> <<>>]
NoStats == [requests |-> 0, path |-> "none"]
NoName == "none"
NoArgs == [none |-> TRUE]
NoQuery == <<>>

\* ----------------------------------------------------- BrinqaClient, pure
\* authenticate() without the valid-token check
AuthPath_NoFastPath(tok, exp, t) ==
    IF Truthy(env.BRINQA_API_KEY) THEN "apikey"
    ELSE IF ~Truthy(env.BRINQA_USERNAME) \/ ~Truthy(env.BRINQA_PASSWORD) THEN "unconfigured"
    ELSE "login"

\* authenticate() with Date.now() <= this.tokenExpiry
AuthPath_InclusiveExpiry(tok, exp, t) ==
    IF Truthy(tok) /\ t <= exp THEN "fast"
    ELSE IF Truthy(env.BRINQA_API_KEY) THEN "apikey"
    ELSE IF ~Truthy(env.BRINQA_USERNAME) \/ ~Truthy(env.BRINQA_PASSWORD) THEN "unconfigured"
    ELSE "login"

\* authenticate() trying username/password before the API key
AuthPath_PasswordFirst(tok, exp, t) ==
    IF Truthy(tok) /\ t < exp THEN "fast"
    ELSE IF Truthy(env.BRINQA_USERNAME) /\ Truthy(env.BRINQA_PASSWORD) THEN "login"
    ELSE IF Truthy(env.BRINQA_API_KEY) THEN "apikey"
    ELSE "unconfigured"

\* authenticate() with !BRINQA_USERNAME && !BRINQA_PASSWORD
AuthPath_EitherCredential(tok, exp, t) ==
    IF Truthy(tok) /\ t < exp THEN "fast"
    ELSE IF Truthy(env.BRINQA_API_KEY) THEN "apikey"
    ELSE IF ~Truthy(env.BRINQA_USERNAME) /\ ~Truthy(env.BRINQA_PASSWORD) THEN "unconfigured"
    ELSE "login"

\* the branch authenticate() takes
AuthPath(tok, exp, t) ==
    IF Truthy(tok) /\ t < exp THEN "fast"
    ELSE IF Truthy(env.BRINQA_API_KEY) THEN "apikey"
    ELSE IF ~Truthy(env.BRINQA_USERNAME) \/ ~Truthy(env.BRINQA_PASSWORD) THEN "unconfigured"
    ELSE "login"

\* tokenExpiry without the five minutes
LoginExpiry_NoMargin(t, expires_in) == t + expires_in * 1000

\* tokenExpiry set after a login that reported expires_in at time t
LoginExpiry(t, expires_in) == t + (expires_in - SafetyMarginSec) * 1000

\* tokenExpiry set when the API key is adopted at time t
ApiKeyExpiry(t) == t + DayMs

\* the 401 handler clearing nothing
Invalidate_Nothing(session) == session

\* the 401 handler forgetting this.tokenExpiry = 0
Invalidate_TokenOnly(session) == [accessToken |-> Null, tokenExpiry |-> session.tokenExpiry]

\* the 401 handler forgetting this.accessToken = null
Invalidate_ExpiryOnly(session) == [accessToken |-> session.accessToken, tokenExpiry |-> 0]

\* the 401 handler's two assignments
Invalidate(session) == [accessToken |-> Null, tokenExpiry |-> 0]

\* `Bearer ${this.accessToken}`
Bearer(tok) == <<"Bearer ", IF tok = Null THEN "null" ELSE tok>>

\* the header built after the 401 handler of another call in flight has cleared the session
BuildHeaders_AfterClear(tok, tl) ==
    [Authorization |-> Bearer(IF \E d \in Calls : pc[d] = "request" THEN Null ELSE tok),
     XApiKey |-> IF tl = "connect" /\ Truthy(env.BRINQA_API_KEY)
                 THEN env.BRINQA_API_KEY ELSE Undefined]

\* X-API-KEY set in getAuthHeaders, for every request
BuildHeaders_KeyOnEveryRequest(tok, tl) ==
    [Authorization |-> Bearer(tok),
     XApiKey |-> IF Truthy(env.BRINQA_API_KEY) THEN env.BRINQA_API_KEY ELSE Undefined]

\* getAuthHeaders, plus connectApiRequest's X-API-KEY
BuildHeaders(tok, tl) ==
    [Authorization |-> Bearer(tok),
     XApiKey |-> IF tl = "connect" /\ Truthy(env.BRINQA_API_KEY)
                 THEN env.BRINQA_API_KEY ELSE Undefined]

NotConfiguredMessage ==
    <<"Authentication credentials not configured. Set BRINQA_USERNAME and BRINQA_PASSWORD or BRINQA_API_KEY.">>
AuthFailedMessage_TransportOnly(e) == <<"Authentication failed: ", TransportMessage>>
AuthFailedMessage(e) == <<"Authentication failed: ", OrElse(e.remote, TransportMessage)>>
GraphQLErrorsMessage_CommaJoin(errors) == <<"GraphQL errors: ">> \o Join(errors, ", ")
GraphQLErrorsMessage(errors) == <<"GraphQL errors: ">> \o Join(errors, "; ")
NoDataMessage == <<"No data returned from GraphQL query">>
GraphQLFailedMessage_TransportOnly(e) == <<"GraphQL request failed: ", TransportMessage>>
GraphQLFailedMessage(e) == <<"GraphQL request failed: ", OrElse(e.remote, TransportMessage)>>
ConnectFailedMessage(e) == <<"Brinqa Connect API request failed: ", OrElse(e.remote, TransportMessage)>>

Threw(msg) == [threw |-> TRUE, value |-> msg]
Returned(v) == [threw |-> FALSE, value |-> <<v>>]

\* executeGraphQL without the check of response.data.data
GraphQLResult_NoDataCheck(body) ==
    IF Len(body.errors) > 0 THEN Threw(GraphQLErrorsMessage(body.errors))
    ELSE Returned(body.data)

\* what executeGraphQL makes of a 2xx body
GraphQLResult(body) ==
    IF Len(body.errors) > 0 THEN Threw(GraphQLErrorsMessage(body.errors))
    ELSE IF ~Truthy(body.data) THEN Threw(NoDataMessage)
    ELSE Returned(body.data)

\* ------------------------------------------------------- query builders
\* An optional parameter is <<>> when the caller left it out and <<v>> when
\* it has the value v.  A string built by a template literal is the sequence
\* of its pieces; an interpolated "" adds no piece.
Unset == <<>>
Some(v) == <<v>>
IsSet(m) == m # <<>>

\* truthiness of an optional string, number, boolean
TruthyStr(m) == IsSet(m) /\ m[1] # ""
TruthyNum(m) == IsSet(m) /\ m[1] # 0
TruthyBool(m) == IsSet(m) /\ m[1]

Min(a, b) == IF a < b THEN a ELSE b

\* the limit without the ceiling
ClampLimit_NoCeiling(limit, dflt, ceiling) == IF TruthyNum(limit) THEN limit[1] ELSE dflt

\* Math.min(params.limit || dflt, ceiling)
ClampLimit(limit, dflt, ceiling) ==
    Min(IF TruthyNum(limit) THEN limit[1] ELSE dflt, ceiling)

\* filters.join(", ") for clauses that are sequences of pieces
RECURSIVE JoinClauses(_)
JoinClauses(filters) ==
    IF Len(filters) = 0 THEN <<>>
    ELSE IF Len(filters) = 1 THEN filters[1]
    ELSE filters[1] \o <<", ">> \o JoinClauses(Tail(filters))

\* filters.length > 0 ? `(${filters.join(", ")})` : ""
FilterStr(filters) ==
    IF Len(filters) > 0 THEN <<"(">> \o JoinClauses(filters) \o <<")">> ELSE <<>>

\* flag ? block : "" with the block left in as empty braces
Include_EmptyBraces(flag, block) == IF TruthyBool(flag) THEN <<block>> ELSE <<"{ }">>

\* flag ? block : ""
Include(flag, block) == IF TruthyBool(flag) THEN <<block>> ELSE <<>>

\* if (cond) filters.push(clause)
Push(cond, clause) == IF cond THEN <<clause>> ELSE <<>>

DefaultAssetFields ==
    <<"id name assetType status criticality riskScore ipAddress hostname operatingSystem lastSeen discoveredAt owner businessUnit environment tags">>
PageInfo == "{ totalCount pageInfo { hasNextPage endCursor }"

\* the caller's fields after the default set, not in its place
SelectFields_AfterDefault(fields, dflt) ==
    IF IsSet(fields) THEN dflt \o Join(fields[1], "\n        ") ELSE dflt

\* params.fields?.join("\n        ") || dflt: the joined text is falsy when
\* the list is empty or holds one empty name
SelectFields(fields, dflt) ==
    IF IsSet(fields) /\ fields[1] \notin {<<>>, <<"">>}
    THEN Join(fields[1], "\n        ") ELSE dflt

buildAssetsQuery(params) ==
    LET limit == ClampLimit(params.limit, 100, 1000)
        fields == SelectFields(params.fields, DefaultAssetFields)
        filters ==
            Push(TruthyStr(params.asset_type), <<"assetType: \"">> \o params.asset_type \o <<"\"">>)
            \o Push(TruthyStr(params.status), <<"status: ">> \o params.status)
            \o Push(TruthyStr(params.filter), <<"filter: \"">> \o params.filter \o <<"\"">>)
    IN <<"query GetAssets {", "assets">> \o FilterStr(filters)
       \o <<PageInfo, "nodes(first: ", ToString(limit), ") {">> \o fields \o <<"} } }">>

AffectedAssetsBlock == "affectedAssets { id name assetType }"

buildVulnerabilitiesQuery(params) ==
    LET limit == ClampLimit(params.limit, 100, 1000)
        affectedAssetsFields == Include(params.include_affected_assets, AffectedAssetsBlock)
        filters ==
            Push(TruthyStr(params.severity), <<"severity: ">> \o params.severity)
            \o Push(TruthyStr(params.status), <<"status: ">> \o params.status)
            \o Push(TruthyStr(params.cve_id), <<"cveId: \"">> \o params.cve_id \o <<"\"">>)
            \o Push(TruthyStr(params.filter), <<"filter: \"">> \o params.filter \o <<"\"">>)
    IN <<"query GetVulnerabilities {", "vulnerabilities">> \o FilterStr(filters)
       \o <<PageInfo, "nodes(first: ", ToString(limit), ") {",
            "id cveId title description severity cvssScore cvssVector status riskScore exploitAvailable exploitMaturity patchAvailable publishedDate lastModifiedDate firstDiscoveredDate affectedAssetCount">>
       \o affectedAssetsFields
       \o <<"references remediation", "} } }">>

buildFindingsQuery(params) ==
    LET limit == ClampLimit(params.limit, 100, 1000)
        filters ==
            Push(TruthyStr(params.finding_type), <<"findingType: \"">> \o params.finding_type \o <<"\"">>)
            \o Push(TruthyStr(params.status), <<"status: ">> \o params.status)
            \o Push(IsSet(params.risk_score_min), <<"riskScoreMin: ", ToString(params.risk_score_min[1])>>)
            \o Push(IsSet(params.risk_score_max), <<"riskScoreMax: ", ToString(params.risk_score_max[1])>>)
            \o Push(TruthyNum(params.age_days), <<"discoveredAfter: \"-", ToString(params.age_days[1]), "d\"">>)
    IN <<"query GetFindings {", "findings">> \o FilterStr(filters)
       \o <<PageInfo, "nodes(first: ", ToString(limit), ") {",
            "id findingType title description status severity riskScore baseRiskScore overallRiskScore discoveredAt lastSeenAt resolvedAt asset { id name assetType } vulnerability { id cveId title } assignee dueDate slaStatus",
            "} } }">>

buildTicketsQuery(params) ==
    LET limit == ClampLimit(params.limit, 100, 1000)
        filters ==
            Push(TruthyStr(params.status), <<"status: ">> \o params.status)
            \o Push(TruthyStr(params.priority), <<"priority: ">> \o params.priority)
            \o Push(TruthyStr(params.assignee), <<"assignee: \"">> \o params.assignee \o <<"\"">>)
            \o Push(TruthyStr(params.sla_status), <<"slaStatus: ">> \o params.sla_status)
    IN <<"query GetTickets {", "tickets">> \o FilterStr(filters)
       \o <<PageInfo, "nodes(first: ", ToString(limit), ") {",
            "id ticketId title description status priority severity assignee reporter createdAt updatedAt dueDate slaStatus slaDueDate findingsCount affectedAssetsCount externalTicketId externalTicketUrl",
            "} } }">>

RiskFactorsBlock == "riskFactors { name weight score description }"
RiskTrendsBlock == "riskTrends { date score changePercent }"

\* the guard without the entity_id
IsAssetLookup_ScopeOnly(params) == params.scope = Some("ASSET")

\* params.scope === "ASSET" && params.entity_id
IsAssetLookup(params) == params.scope = Some("ASSET") /\ TruthyStr(params.entity_id)

buildRiskScoresQuery(params) ==
    LET factorsFields == Include(params.include_factors, RiskFactorsBlock)
        trendsFields == Include(params.include_trends, RiskTrendsBlock)
    IN IF IsAssetLookup(params)
       THEN <<"query GetAssetRiskScore {", "asset", "(id: \"">> \o params.entity_id
            \o <<"\")", "{", "id name riskScore baseRiskScore overallRiskScore">>
            \o factorsFields \o trendsFields \o <<"} }">>
       ELSE <<"query GetRiskScores {", "riskSummary", "{",
              "overallRiskScore criticalAssetCount highRiskAssetCount mediumRiskAssetCount lowRiskAssetCount totalAssetCount openFindingsCount criticalFindingsCount averageRemediationTime">>
            \o factorsFields \o trendsFields \o <<"} }">>

SyncHistoryBlock == "syncHistory { syncId startTime endTime status recordsProcessed errorsCount }"

buildConnectorsQuery(params) ==
    LET syncHistoryFields == Include(params.include_sync_history, SyncHistoryBlock)
        filters ==
            Push(TruthyStr(params.connector_type), <<"connectorType: \"">> \o params.connector_type \o <<"\"">>)
            \o Push(TruthyStr(params.status), <<"status: ">> \o params.status)
    IN <<"query GetConnectors {", "connectors">> \o FilterStr(filters)
       \o <<"{", "id name connectorType status lastSyncTime lastSyncStatus recordsCount configuration { enabled syncSchedule }">>
       \o syncHistoryFields \o <<"} }">>

buildClustersQuery(params) ==
    LET limit == ClampLimit(params.limit, 50, 500)
        filters ==
            Push(TruthyStr(params.cluster_type), <<"clusterType: \"">> \o params.cluster_type \o <<"\"">>)
    IN <<"query GetClusters {", "clusters">> \o FilterStr(filters)
       \o <<"{", "nodes(first: ", ToString(limit), ") {",
            "id name clusterType description entityCount riskScore criteria { attribute operator value } createdAt updatedAt",
            "} } }">>

AttributesBlock == "attributes { name type description required indexed }"
RelationshipsBlock == "relationships { name targetModel cardinality description }"

\* the guard testing model_name against undefined
IsModelLookup_Defined(params) == IsSet(params.model_name)

\* if (params.model_name)
IsModelLookup(params) == TruthyStr(params.model_name)

buildDataModelsQuery(params) ==
    LET attributesFields == Include(params.include_attributes, AttributesBlock)
        relationshipsFields == Include(params.include_relationships, RelationshipsBlock)
    IN IF IsModelLookup(params)
       THEN <<"query GetDataModel {", "dataModel", "(name: \"">> \o params.model_name
            \o <<"\")", "{", "name description category">>
            \o attributesFields \o relationshipsFields \o <<"} }">>
       ELSE <<"query GetDataModels {", "dataModels", "{", "name description category">>
            \o attributesFields \o relationshipsFields \o <<"} }">>

\* ----------------------------------------------------------------- steps
\* the request is handed to axios with the headers built from the session
Send(c, tl, tok, exp, st) ==
    /\ accessToken' = tok
    /\ tokenExpiry' = exp
    /\ headers' = [headers EXCEPT ![c] = BuildHeaders(tok, tl)]
    /\ pc' = [pc EXCEPT ![c] = "request"]
    /\ stats' = [stats EXCEPT ![c] = [st EXCEPT !.requests = Inc(st.requests)]]
    /\ UNCHANGED outcome

\* executeGraphQL / connectApiRequest from their first line up to the first
\* network await, entered with the session (tok, exp)
Enter(c, tl, tok, exp, st) ==
    LET path == AuthPath(tok, exp, now)
        st1 == [st EXCEPT !.path = path]
    IN CASE path = "fast" -> Send(c, tl, tok, exp, st1)
         [] path = "apikey" -> Send(c, tl, env.BRINQA_API_KEY, ApiKeyExpiry(now), st1)
         [] path = "unconfigured" ->
                /\ accessToken' = tok
                /\ tokenExpiry' = exp
                /\ pc' = [pc EXCEPT ![c] = "done"]
                /\ outcome' = [outcome EXCEPT ![c] = Threw(NotConfiguredMessage)]
                /\ stats' = [stats EXCEPT ![c] = st1]
                /\ UNCHANGED headers
         [] path = "login" ->
                /\ accessToken' = tok
                /\ tokenExpiry' = exp
                /\ pc' = [pc EXCEPT ![c] = "login"]
                /\ stats' = [stats EXCEPT ![c] = st1]
                /\ UNCHANGED <<headers, outcome>>

\* a finished call hands its result to the caller in the same turn of the
\* event loop: no other code runs while a result is pending
Quiet == \A d \in Calls : pc[d] # "done"

\* a tool call reaches the client
BeginCall(c) ==
    /\ pc[c] = "idle" /\ Quiet
    /\ \E tl \in {"graphql", "connect"} :
        /\ tool' = [tool EXCEPT ![c] = tl]
        /\ Enter(c, tl, accessToken, tokenExpiry, NoStats)
    /\ UNCHANGED <<env, now, ticks, issued, reply>>
    /\ UNCHANGED <<name, args, query>>

\* a login answer that leaves a valid session of another login in place
LoginOk_KeepFirst(c) ==
    /\ pc[c] = "login" /\ Quiet
    /\ \E tok \in Tokens, expires_in \in Lifetimes :
        /\ issued' = [at |-> now, token |-> tok, lifetime |-> expires_in]
        /\ IF Truthy(accessToken) /\ now < tokenExpiry
           THEN Send(c, tool[c], accessToken, tokenExpiry, stats[c])
           ELSE Send(c, tool[c], tok, LoginExpiry(now, expires_in), stats[c])
    /\ reply' = [reply EXCEPT ![c] = OkReply(Undefined, <<>>)]
    /\ UNCHANGED <<env, now, ticks, tool>>
    /\ UNCHANGED <<name, args, query>>

\* POST /api/auth/login answered 2xx
LoginOk(c) ==
    /\ pc[c] = "login" /\ Quiet
    /\ \E tok \in Tokens, expires_in \in Lifetimes :
        /\ issued' = [at |-> now, token |-> tok, lifetime |-> expires_in]
        /\ Send(c, tool[c], tok, LoginExpiry(now, expires_in), stats[c])
    /\ reply' = [reply EXCEPT ![c] = OkReply(Undefined, <<>>)]
    /\ UNCHANGED <<env, now, ticks, tool>>
    /\ UNCHANGED <<name, args, query>>

\* POST /api/auth/login failed with an AxiosError
LoginFail(c) ==
    /\ pc[c] = "login" /\ Quiet
    /\ \E e \in AxiosErrors :
        /\ reply' = [reply EXCEPT ![c] = ErrorReply(e)]
        /\ outcome' = [outcome EXCEPT ![c] = Threw(AuthFailedMessage(e))]
    /\ pc' = [pc EXCEPT ![c] = "done"]
    /\ UNCHANGED <<env, accessToken, tokenExpiry, now, ticks, issued, tool, headers, stats>>
    /\ UNCHANGED <<name, args, query>>

\* POST /graphql/caasm answered 2xx
GraphQLOk(c) ==
    /\ Quiet /\ pc[c] = "request" /\ tool[c] = "graphql"
    /\ \E body \in GraphQLBodies :
        /\ reply' = [reply EXCEPT ![c] = OkReply(body.data, body.errors)]
        /\ outcome' = [outcome EXCEPT ![c] = GraphQLResult(body)]
    /\ pc' = [pc EXCEPT ![c] = "done"]
    /\ UNCHANGED <<env, accessToken, tokenExpiry, now, ticks, issued, tool, headers, stats>>
    /\ UNCHANGED <<name, args, query>>

\* POST /graphql/caasm answered 401: clear the session and call executeGraphQL again
GraphQL401(c) ==
    /\ Quiet /\ pc[c] = "request" /\ tool[c] = "graphql"
    /\ LET cleared == Invalidate([accessToken |-> accessToken, tokenExpiry |-> tokenExpiry])
       IN Enter(c, "graphql", cleared.accessToken, cleared.tokenExpiry, stats[c])
    /\ reply' = [reply EXCEPT ![c] = ErrorReply([status |-> 401, remote |-> Undefined])]
    /\ UNCHANGED <<env, now, ticks, issued, tool>>
    /\ UNCHANGED <<name, args, query>>

\* POST /graphql/caasm failed with any other AxiosError
GraphQLFail(c) ==
    /\ Quiet /\ pc[c] = "request" /\ tool[c] = "graphql"
    /\ \E e \in AxiosErrors :
        /\ e.status # 401
        /\ reply' = [reply EXCEPT ![c] = ErrorReply(e)]
        /\ outcome' = [outcome EXCEPT ![c] = Threw(GraphQLFailedMessage(e))]
    /\ pc' = [pc EXCEPT ![c] = "done"]
    /\ UNCHANGED <<env, accessToken, tokenExpiry, now, ticks, issued, tool, headers, stats>>
    /\ UNCHANGED <<name, args, query>>

\* /connect request answered 2xx
ConnectOk(c) ==
    /\ Quiet /\ pc[c] = "request" /\ tool[c] = "connect"
    /\ \E data \in {Undefined, "payload"} :
        /\ reply' = [reply EXCEPT ![c] = OkReply(data, <<>>)]
        /\ outcome' = [outcome EXCEPT ![c] = Returned(data)]
    /\ pc' = [pc EXCEPT ![c] = "done"]
    /\ UNCHANGED <<env, accessToken, tokenExpiry, now, ticks, issued, tool, headers, stats>>
    /\ UNCHANGED <<name, args, query>>

\* /connect request failed with an AxiosError (401 included)
ConnectFail(c) ==
    /\ Quiet /\ pc[c] = "request" /\ tool[c] = "connect"
    /\ \E e \in AxiosErrors :
        /\ reply' = [reply EXCEPT ![c] = ErrorReply(e)]
        /\ outcome' = [outcome EXCEPT ![c] = Threw(ConnectFailedMessage(e))]
    /\ pc' = [pc EXCEPT ![c] = "done"]
    /\ UNCHANGED <<env, accessToken, tokenExpiry, now, ticks, issued, tool, headers, stats>>
    /\ UNCHANGED <<name, args, query>>

\* the caller takes the result; the slot is free for the next call
Return(c) ==
    /\ pc[c] = "done"
    /\ pc' = [pc EXCEPT ![c] = "idle"]
    /\ headers' = [headers EXCEPT ![c] = NoHeaders]
    /\ outcome' = [outcome EXCEPT ![c] = NoOutcome]
    /\ stats' = [stats EXCEPT ![c] = NoStats]
    /\ reply' = [reply EXCEPT ![c] = NoReply]
    /\ tool' = [tool EXCEPT ![c] = "graphql"]
    /\ name' = [name EXCEPT ![c] = NoName]
    /\ args' = [args EXCEPT ![c] = NoArgs]
    /\ query' = [query EXCEPT ![c] = NoQuery]
    /\ UNCHANGED <<env, accessToken, tokenExpiry, now, ticks, issued>>

\* time passes
Tick ==
    /\ ticks < MaxTicks /\ Quiet
    /\ ticks' = ticks + 1
    /\ now' = now + TickMs
    /\ UNCHANGED <<env, accessToken, tokenExpiry, issued, pc, tool, headers, outcome, reply, stats>>
    /\ UNCHANGED <<name, args, query>>

\* ------------------------------------------------------------ tool calls
ToolNames ==
    {"query_assets", "query_vulnerabilities", "query_findings", "get_risk_scores",
     "query_tickets", "get_connectors", "execute_graphql", "get_clusters",
     "connect_ingest_data", "get_data_models"}

\* text a caller can send to have a second clause or operation read by the service
InjectionValues == {"\") { __typename } x(y: \"", "} mutation { deleteAll }"}

\* the values a caller passes for each kind of argument
AllValues ==
    [str    |-> {Unset, Some(""), Some("Host")},
     enum   |-> {Unset, Some("ACTIVE")},
     num    |-> {Unset, Some(0), Some(7)},
     bool   |-> {Unset, Some(FALSE), Some(TRUE)},
     limit  |-> {Unset} \cup {Some(n) : n \in {-1, 0, 1, 500, 501, 1000, 1001}},
     fields |-> {Unset, Some(<<>>), Some(<<"">>), Some(<<"id">>), Some(<<"id", "name">>)},
     scope  |-> {Unset, Some("ASSET"), Some("ORGANIZATION")},
     text   |-> {Unset, Some(""), Some("{ assets { totalCount } }")}]

\* few values of each kind, hostile text among them
FewValues ==
    [str    |-> {Unset, Some("Host")} \cup {Some(v) : v \in InjectionValues},
     enum   |-> {Unset},
     num    |-> {Unset},
     bool   |-> {Unset},
     limit  |-> {Unset},
     fields |-> {Unset},
     scope  |-> {Unset, Some("ASSET")},
     text   |-> {Unset, Some(""), Some("{ assets { totalCount } }")}
                \cup {Some(v) : v \in InjectionValues}]

\* the `args as {...}` of each case of the handler, over the values V
Args(n, V) ==
    CASE n = "query_assets" ->
            [asset_type : V.str, status : V.enum, limit : V.limit, filter : V.str,
             fields : V.fields]
      [] n = "query_vulnerabilities" ->
            [severity : V.enum, status : V.enum, cve_id : V.str, limit : V.limit,
             filter : V.str, include_affected_assets : V.bool]
      [] n = "query_findings" ->
            [finding_type : V.str, status : V.enum, risk_score_min : V.num,
             risk_score_max : V.num, limit : V.limit, age_days : V.num]
      [] n = "get_risk_scores" ->
            [scope : V.scope, entity_id : V.str, include_factors : V.bool,
             include_trends : V.bool]
      [] n = "query_tickets" ->
            [status : V.enum, priority : V.enum, assignee : V.str, sla_status : V.enum,
             limit : V.limit]
      [] n = "get_connectors" ->
            [connector_type : V.str, status : V.enum, include_sync_history : V.bool]
      [] n = "execute_graphql" -> [query : V.text]
      [] n = "get_clusters" -> [cluster_type : V.str, limit : V.limit]
      [] n = "connect_ingest_data" ->
            [namespace : {Some("ns")}, data_type : {Some("asset")},
             records : {Some(<<>>), Some(<<"r1">>)}]
      [] n = "get_data_models" ->
            [model_name : V.str, include_attributes : V.bool, include_relationships : V.bool]
      [] OTHER -> {NoArgs}

\* the client method each case of the handler calls
ClientMethod(n) == IF n = "connect_ingest_data" THEN "connect" ELSE "graphql"

\* what each case of the handler hands to the client: the built document,
\* the caller's own query text, or the ingest body
RequestBody(n, a) ==
    CASE n = "query_assets" -> buildAssetsQuery(a)
      [] n = "query_vulnerabilities" -> buildVulnerabilitiesQuery(a)
      [] n = "query_findings" -> buildFindingsQuery(a)
      [] n = "get_risk_scores" -> buildRiskScoresQuery(a)
      [] n = "query_tickets" -> buildTicketsQuery(a)
      [] n = "get_connectors" -> buildConnectorsQuery(a)
      [] n = "execute_graphql" -> a.query
      [] n = "get_clusters" -> buildClustersQuery(a)
      [] n = "connect_ingest_data" -> a.namespace \o a.data_type \o a.records[1]
      [] n = "get_data_models" -> buildDataModelsQuery(a)

UnknownToolMessage(n) == <<"Unknown tool: ", n>>

\* JSON.stringify(result, null, 2): undefined has no JSON text
Stringify(v) == IF v = Undefined THEN Undefined ELSE <<"json:", v>>

\* the handler letting the failure escape to the server with its bare message
ToolResult_BareMessage(o) ==
    IF o.threw THEN [isError |-> TRUE, text |-> o.value]
    ELSE [isError |-> FALSE, text |-> Stringify(o.value[1])]

\* what the handler returns to the caller: the result as JSON text, or the
\* catch block's `Error: ${errorMessage}` flagged isError
ToolResult(o) ==
    IF o.threw THEN [isError |-> TRUE, text |-> <<"Error: ">> \o o.value]
    ELSE [isError |-> FALSE, text |-> Stringify(o.value[1])]

\* the CallTool handler from its first line up to the first network await
Handle(c, n, a) ==
    /\ name' = [name EXCEPT ![c] = n]
    /\ args' = [args EXCEPT ![c] = a]
    /\ IF n \in ToolNames
       THEN /\ query' = [query EXCEPT ![c] = RequestBody(n, a)]
            /\ tool' = [tool EXCEPT ![c] = ClientMethod(n)]
            /\ Enter(c, ClientMethod(n), accessToken, tokenExpiry, NoStats)
       ELSE /\ pc' = [pc EXCEPT ![c] = "done"]
            /\ outcome' = [outcome EXCEPT ![c] = Threw(UnknownToolMessage(n))]
            /\ UNCHANGED <<query, tool, accessToken, tokenExpiry, headers, stats>>
    /\ UNCHANGED <<env, now, ticks, issued, reply>>

\* a caller invokes a tool, by a name the server may not know
CallTool(c) ==
    /\ pc[c] = "idle" /\ Quiet
    /\ \E n \in ToolNames \cup {"no_such_tool"} : \E a \in Args(n, FewValues) : Handle(c, n, a)

\* a caller invokes one of the tools with any of the argument values
CallAnyTool(c) ==
    /\ pc[c] = "idle" /\ Quiet
    /\ \E n \in ToolNames : \E a \in Args(n, AllValues) : Handle(c, n, a)


Init ==
    /\ env \in [BRINQA_API_KEY : EnvValues("key"),
                BRINQA_USERNAME : EnvValues("user"),
                BRINQA_PASSWORD : EnvValues("pass")]
    /\ accessToken = Null
    /\ tokenExpiry = 0
    /\ now = TickMs
    /\ ticks = 0
    /\ issued = [at |-> 0, token |-> Null, lifetime |-> 0]
    /\ pc = [c \in Calls |-> "idle"]
    /\ tool = [c \in Calls |-> "graphql"]
    /\ headers = [c \in Calls |-> NoHeaders]
    /\ outcome = [c \in Calls |-> NoOutcome]
    /\ reply = [c \in Calls |-> NoReply]
    /\ stats = [c \in Calls |-> NoStats]
    /\ name = [c \in Calls |-> NoName]
    /\ args = [c \in Calls |-> NoArgs]
    /\ query = [c \in Calls |-> NoQuery]

Next ==
    \/ \E c \in Calls : BeginCall(c)
    \/ \E c \in Calls : LoginOk(c)
    \/ \E c \in Calls : LoginFail(c)
    \/ \E c \in Calls : GraphQLOk(c)
    \/ \E c \in Calls : GraphQL401(c)
    \/ \E c \in Calls : GraphQLFail(c)
    \/ \E c \in Calls : ConnectOk(c)
    \/ \E c \in Calls : ConnectFail(c)
    \/ \E c \in Calls : Return(c)
    \/ Tick

Spec == Init /\ [][Next]_vars

\* one call at a time: the caller waits for each result before the next call
SingleNext ==
    \/ BeginCall(1)
    \/ LoginOk(1)
    \/ LoginFail(1)
    \/ GraphQLOk(1)
    \/ GraphQL401(1)
    \/ GraphQLFail(1)
    \/ ConnectOk(1)
    \/ ConnectFail(1)
    \/ Return(1)
    \/ Tick

\* every network request is answered, and every result is taken by its caller
FairSpec ==
    /\ Init
    /\ [][SingleNext]_vars
    /\ WF_vars(LoginOk(1) \/ LoginFail(1))
    /\ WF_vars(GraphQLOk(1) \/ GraphQL401(1) \/ GraphQLFail(1))
    /\ WF_vars(ConnectOk(1) \/ ConnectFail(1))
    /\ WF_vars(Return(1))

\* one caller using the tools of the server, in every configuration
ToolNext ==
    \/ CallTool(1)
    \/ LoginOk(1)
    \/ LoginFail(1)
    \/ GraphQLOk(1)
    \/ GraphQL401(1)
    \/ GraphQLFail(1)
    \/ ConnectOk(1)
    \/ ConnectFail(1)
    \/ Return(1)
    \/ Tick

ToolSpec == Init /\ [][ToolNext]_vars

\* one caller trying every argument value, on a server configured with an API key
BuilderInit == Init /\ env = [BRINQA_API_KEY |-> "key", BRINQA_USERNAME |-> "", BRINQA_PASSWORD |-> ""]

BuilderNext ==
    \/ CallAnyTool(1)
    \/ GraphQLOk(1)
    \/ GraphQL401(1)
    \/ GraphQLFail(1)
    \/ ConnectOk(1)
    \/ ConnectFail(1)
    \/ Return(1)

BuilderSpec == BuilderInit /\ [][BuilderNext]_vars

TypeOK ==
    /\ pc \in [Calls -> {"idle", "login", "request", "done"}]
    /\ tool \in [Calls -> {"graphql", "connect"}]
    /\ accessToken \in {Null, "key"} \cup Tokens
    /\ \A c \in Calls : stats[c].requests \in 0 .. CountCap

\* ================================================================ claims
\* vocabulary of the claims, stated on the observable state

\* a session exists and now < expiresAt
SessionValid == accessToken # Null /\ now < tokenExpiry
SessionAbsent == accessToken = Null /\ tokenExpiry = 0
ApiKeyMode == env.BRINQA_API_KEY # ""
PasswordMode ==
    env.BRINQA_API_KEY = "" /\ env.BRINQA_USERNAME # "" /\ env.BRINQA_PASSWORD # ""
NoCredentials ==
    env.BRINQA_API_KEY = "" /\ (env.BRINQA_USERNAME = "" \/ env.BRINQA_PASSWORD = "")

\* the failure classes of the error taxonomy, told apart by the message
ErrorClass(o) ==
    IF ~o.threw THEN "none"
    ELSE CASE o.value[1] = "Authentication credentials not configured. Set BRINQA_USERNAME and BRINQA_PASSWORD or BRINQA_API_KEY."
                -> "ConfigurationError"
           [] o.value[1] = "Authentication failed: " -> "AuthenticationError"
           [] o.value[1] = "GraphQL errors: " -> "RemoteQueryError"
           [] o.value[1] = "No data returned from GraphQL query" -> "EmptyResultError"
           [] o.value[1] = "GraphQL request failed: " -> "NetworkError"
           [] o.value[1] = "Brinqa Connect API request failed: " -> "NetworkError"
           [] OTHER -> "unclassified"

\* call c starts in this step
Starts(c) == pc[c] = "idle" /\ pc'[c] # "idle"

\* C1: an executeGraphQL call sends at most two GraphQL requests, whatever
\* the remote service answers (one retry after a 401, then AuthenticationError).
C1_AtMostTwoRequests ==
    \A c \in Calls : tool[c] = "graphql" => stats[c].requests <= 2

\* C2: every call that has started eventually completes with its result,
\* given that every network request is eventually answered.
C2_EveryCallCompletes ==
    \A c \in Calls : (pc[c] \in {"login", "request"}) ~> (pc[c] = "done")

\* C3: a call that starts while the session is valid sends no login request,
\* leaves accessToken and tokenExpiry as they are and sends its request with
\* the credential of that session.
C3_FastPathReusesSession ==
    [][\A c \in Calls :
        (Starts(c) /\ SessionValid) =>
            /\ pc'[c] = "request"
            /\ accessToken' = accessToken
            /\ tokenExpiry' = tokenExpiry
            /\ headers'[c].Authorization = <<"Bearer ", accessToken>>]_vars

\* a second call is in flight on the session of an earlier login, after time has passed
C3_Witness ==
    /\ PasswordMode
    /\ now > issued.at
    /\ \E c \in Calls :
        /\ pc[c] = "request"
        /\ stats[c].path = "fast"
        /\ headers[c].Authorization = <<"Bearer ", issued.token>>

\* C4: in Password mode a call that starts with the session absent or stale
\* (now >= tokenExpiry) sends one login request and no main request yet; the
\* login's answer is followed at once by the main request, which carries the
\* credential that login returned.
C4_RefreshBeforeRequest ==
    [][\A c \in Calls :
        /\ (Starts(c) /\ PasswordMode /\ ~SessionValid) =>
                (pc'[c] = "login" /\ stats'[c].requests = 0)
        /\ (pc[c] = "login" /\ pc'[c] # "login") =>
                \/ pc'[c] = "done" /\ stats'[c].requests = stats[c].requests
                \/ /\ pc'[c] = "request"
                   /\ reply'[c].kind = "ok"
                   /\ issued'.at = now
                   /\ accessToken' = issued'.token
                   /\ headers'[c].Authorization = <<"Bearer ", issued'.token>>]_vars

\* a login is in flight for a call that found the session stale exactly at now = tokenExpiry
C4_Witness ==
    /\ PasswordMode
    /\ accessToken # Null
    /\ now = tokenExpiry
    /\ ticks > 0
    /\ \E c \in Calls : pc[c] = "login" /\ stats[c].requests = 0

\* C5: a session obtained by a login that reported lifetime L at time t has
\* tokenExpiry = t + (L - 300) s, which is before t + L, and a call skips the
\* login only while now is before t + (L - 300) s.
C5_ExpiryHasSafetyMargin ==
    /\ [](PasswordMode /\ accessToken # Null =>
            /\ tokenExpiry = issued.at + (issued.lifetime - 300) * 1000
            /\ tokenExpiry < issued.at + issued.lifetime * 1000)
    /\ [][\A c \in Calls :
            (PasswordMode /\ Starts(c) /\ pc'[c] = "request") =>
                now < issued.at + (issued.lifetime - 300) * 1000]_vars

\* a call has skipped the login on a 302 s session, one tick after the login
C5_Witness ==
    /\ PasswordMode
    /\ accessToken # Null
    /\ issued.lifetime = 302
    /\ now = issued.at + TickMs
    /\ \E c \in Calls : pc[c] = "request" /\ stats[c].path = "fast"

\* C6: with an API key configured no login request is ever sent, and every
\* authentication that does not reuse a valid session makes the API key the
\* session credential with tokenExpiry = now + 24 h.
C6_ApiKeyPrecedence ==
    /\ [](ApiKeyMode =>
            /\ \A c \in Calls : pc[c] # "login"
            /\ accessToken \in {Null, env.BRINQA_API_KEY})
    /\ [][\A c \in Calls :
            (/\ ApiKeyMode
             /\ \/ Starts(c) /\ ~SessionValid
                \/ GraphQL401(c)) =>
                /\ pc'[c] = "request"
                /\ accessToken' = env.BRINQA_API_KEY
                /\ tokenExpiry' = now + 24 * 60 * 60 * 1000
                /\ headers'[c].Authorization = <<"Bearer ", env.BRINQA_API_KEY>>]_vars

\* username and password are configured too, and the key was adopted again after a 401
C6_Witness ==
    /\ ApiKeyMode /\ env.BRINQA_USERNAME # "" /\ env.BRINQA_PASSWORD # ""
    /\ accessToken = env.BRINQA_API_KEY
    /\ tokenExpiry = now + 24 * 60 * 60 * 1000
    /\ \E c \in Calls : pc[c] = "request" /\ reply[c].status = 401 /\ stats[c].requests = 2

\* C7: without an API key and without a complete username/password pair,
\* every call fails with ConfigurationError, no request is ever sent and the
\* session stays absent.
C7_NoCredentialsNoRequest ==
    NoCredentials =>
        /\ SessionAbsent
        /\ \A c \in Calls :
            /\ pc[c] \in {"idle", "done"}
            /\ stats[c].requests = 0
            /\ reply[c] = NoReply
            /\ pc[c] = "done" => ErrorClass(outcome[c]) = "ConfigurationError"

\* only the password is missing, and a call has failed
C7_Witness ==
    /\ env.BRINQA_API_KEY = "" /\ env.BRINQA_USERNAME # "" /\ env.BRINQA_PASSWORD = ""
    /\ \E c \in Calls : pc[c] = "done" /\ ErrorClass(outcome[c]) = "ConfigurationError"

\* C8: a failed login ends the call with AuthenticationError, whose message is
\* the remote message when the answer carried a non-empty one and the
\* transport message otherwise; no main request is sent and accessToken and
\* tokenExpiry are not touched.
C8_LoginFailure ==
    [][\A c \in Calls :
        (pc[c] = "login" /\ pc'[c] = "done") =>
            /\ reply'[c].kind = "error"
            /\ ErrorClass(outcome'[c]) = "AuthenticationError"
            /\ outcome'[c].value[2] =
                  IF reply'[c].remote \notin {Undefined, ""} THEN reply'[c].remote
                  ELSE "transport-msg"
            /\ Len(outcome'[c].value) = 2
            /\ stats'[c].requests = stats[c].requests
            /\ headers'[c] = headers[c]
            /\ accessToken' = accessToken
            /\ tokenExpiry' = tokenExpiry]_vars

\* a refresh of a stale session failed with a remote message; the stale session is still there
C8_Witness ==
    /\ accessToken # Null
    /\ \E c \in Calls :
        /\ pc[c] = "done"
        /\ stats[c].requests = 0
        /\ reply[c].kind = "error" /\ reply[c].remote = "remote-msg"
        /\ outcome[c] = [threw |-> TRUE, value |-> <<"Authentication failed: ", "remote-msg">>]

\* C9: clearing the session gives the absent session from every session
\* state, clearing twice is the same as clearing once, and the
\* authentication that follows a clearing never reuses the old session: it
\* sends a login request or adopts the API key afresh.
C9_InvalidateIdempotent ==
    /\ [](LET session == [accessToken |-> accessToken, tokenExpiry |-> tokenExpiry]
              cleared == Invalidate(session)
          IN /\ cleared = [accessToken |-> Null, tokenExpiry |-> 0]
             /\ Invalidate(cleared) = cleared)
    /\ [][\A c \in Calls :
            GraphQL401(c) =>
                /\ stats'[c].path \in {"login", "apikey"}
                /\ \/ pc'[c] = "login" /\ SessionAbsent'
                   \/ /\ pc'[c] = "request"
                      /\ ApiKeyMode
                      /\ accessToken' = env.BRINQA_API_KEY
                      /\ tokenExpiry' = now + 24 * 60 * 60 * 1000]_vars

\* two calls were answered 401 one after the other: the second clearing found no session
C9_Witness ==
    /\ SessionAbsent
    /\ \E c, d \in Calls :
        /\ c # d
        /\ pc[c] = "login" /\ reply[c].status = 401
        /\ pc[d] = "login" /\ reply[d].status = 401

\* the messages of an errors list joined with "; ", in their order
C10_Joined(errors) ==
    [i \in 1 .. (2 * Len(errors) - 1) |->
        IF i % 2 = 1 THEN errors[(i + 1) \div 2] ELSE "; "]

\* C10: a 2xx GraphQL answer with a non-empty errors list, with or without
\* data, ends the call with RemoteQueryError whose message is the error
\* messages joined with "; " in their order; nothing is retried and the
\* session is not touched.
C10_GraphQLErrorsJoined ==
    [][\A c \in Calls :
        (/\ pc[c] = "request" /\ tool[c] = "graphql" /\ pc'[c] = "done"
         /\ reply'[c].kind = "ok" /\ Len(reply'[c].errors) > 0) =>
            /\ ErrorClass(outcome'[c]) = "RemoteQueryError"
            /\ outcome'[c].value = <<"GraphQL errors: ">> \o C10_Joined(reply'[c].errors)
            /\ stats'[c].requests = stats[c].requests
            /\ accessToken' = accessToken
            /\ tokenExpiry' = tokenExpiry]_vars

\* an answer with data and two different errors
C10_Witness ==
    \E c \in Calls :
        /\ pc[c] = "done"
        /\ reply[c].data = "payload"
        /\ reply[c].errors = <<"e2", "e1">>
        /\ outcome[c].value = <<"GraphQL errors: ", "e2", "; ", "e1">>

\* C11: a 2xx GraphQL answer without errors ends the call at once: with
\* EmptyResultError when it has no data, with the data itself otherwise; no
\* further request is sent and the session is not touched.
C11_EmptyOrPayload ==
    [][\A c \in Calls :
        (/\ pc[c] = "request" /\ tool[c] = "graphql" /\ pc'[c] = "done"
         /\ reply'[c].kind = "ok" /\ Len(reply'[c].errors) = 0) =>
            /\ IF reply'[c].data = Undefined
               THEN /\ ErrorClass(outcome'[c]) = "EmptyResultError"
                    /\ outcome'[c].value = <<"No data returned from GraphQL query">>
               ELSE outcome'[c] = [threw |-> FALSE, value |-> <<reply'[c].data>>]
            /\ stats'[c].requests = stats[c].requests
            /\ accessToken' = accessToken
            /\ tokenExpiry' = tokenExpiry]_vars

\* the first request of a call was answered 2xx with neither errors nor data
C11_Witness ==
    \E c \in Calls :
        /\ pc[c] = "done" /\ tool[c] = "graphql"
        /\ stats[c].requests = 1
        /\ reply[c].kind = "ok" /\ reply[c].data = Undefined /\ reply[c].errors = <<>>
        /\ ErrorClass(outcome[c]) = "EmptyResultError"

\* C12: a GraphQL request that fails with anything but HTTP 401 ends the call
\* at once with NetworkError, whose message is the remote message when the
\* answer carried a non-empty one and the transport message otherwise; no
\* further request is sent and the session is not touched.
C12_NetworkErrorNoRetry ==
    [][\A c \in Calls :
        (/\ pc[c] = "request" /\ tool[c] = "graphql" /\ pc'[c] = "done"
         /\ reply'[c].kind = "error") =>
            /\ reply'[c].status # 401
            /\ ErrorClass(outcome'[c]) = "NetworkError"
            /\ outcome'[c].value =
                  <<"GraphQL request failed: ",
                    IF reply'[c].remote \notin {Undefined, ""} THEN reply'[c].remote
                    ELSE "transport-msg">>
            /\ stats'[c].requests = stats[c].requests
            /\ accessToken' = accessToken
            /\ tokenExpiry' = tokenExpiry]_vars

\* the first request of a call failed with HTTP 500 and a remote message; the session is still there
C12_Witness ==
    /\ accessToken # Null
    /\ \E c \in Calls :
        /\ pc[c] = "done" /\ tool[c] = "graphql"
        /\ stats[c].requests = 1
        /\ reply[c].status = 500 /\ reply[c].remote = "remote-msg"
        /\ outcome[c].value = <<"GraphQL request failed: ", "remote-msg">>

\* C13: an ingestion request answered 401 is retried: the call does not end
\* on a 401 before it has sent a second request.
C13_Connect401Retried ==
    \A c \in Calls :
        (pc[c] = "done" /\ tool[c] = "connect" /\ reply[c].status = 401) =>
            stats[c].requests >= 2

\* C14: a request in flight carries "Bearer <credential>"; an ingestion
\* request carries X-API-KEY exactly when BRINQA_API_KEY is configured, a
\* GraphQL request never does.
C14_SecondaryKeyHeader ==
    \A c \in Calls :
        pc[c] = "request" =>
            /\ Len(headers[c].Authorization) = 2
            /\ headers[c].Authorization[1] = "Bearer "
            /\ headers[c].Authorization[2] \in {"key", "t1", "t2"}
            /\ tool[c] = "connect" =>
                  IF env.BRINQA_API_KEY # ""
                  THEN headers[c].XApiKey = env.BRINQA_API_KEY
                  ELSE headers[c].XApiKey = Undefined
            /\ tool[c] = "graphql" => headers[c].XApiKey = Undefined

\* with the key configured, an ingestion request and a GraphQL request are in flight together
C14_Witness ==
    /\ env.BRINQA_API_KEY # ""
    /\ \E c, d \in Calls :
        /\ pc[c] = "request" /\ tool[c] = "connect" /\ headers[c].XApiKey = env.BRINQA_API_KEY
        /\ pc[d] = "request" /\ tool[d] = "graphql" /\ headers[d].XApiKey = Undefined

\* vocabulary of the claims about documents
Has(doc, piece) == \E i \in DOMAIN doc : doc[i] = piece
Without(doc, piece) == SelectSeq(doc, LAMBDA x : x # piece)

\* the number the document asks for in nodes(first: ...)
FirstOf(doc) == doc[(CHOOSE i \in DOMAIN doc : doc[i] = "nodes(first: ") + 1]

\* call c is being handled for tool n
Handling(c, n) == pc[c] # "idle" /\ name[c] = n

LimitTools ==
    {"query_assets", "query_vulnerabilities", "query_findings", "query_tickets", "get_clusters"}
DefaultOf(n) == IF n = "get_clusters" THEN 50 ELSE 100
CeilingOf(n) == IF n = "get_clusters" THEN 500 ELSE 1000

\* C15 as stated: the document asks for the default when limit is unset and
\* for the ceiling when limit exceeds it, the raw input then appearing
\* nowhere; every limit within the ceiling appears unchanged.
C15_WithinCeilingUnchanged ==
    \A c \in Calls : \A n \in LimitTools :
        Handling(c, n) =>
            LET lim == args[c].limit
                first == FirstOf(query[c])
            IN /\ lim = Unset => first = ToString(DefaultOf(n))
               /\ (lim # Unset /\ lim[1] > CeilingOf(n)) =>
                     first = ToString(CeilingOf(n)) /\ ~Has(query[c], ToString(lim[1]))
               /\ (lim # Unset /\ lim[1] <= CeilingOf(n)) => first = ToString(lim[1])

\* C15: the document asks for the default (100; clusters 50) when limit is
\* unset or 0, for the ceiling (1000; clusters 500) when limit exceeds it, the
\* raw input then appearing nowhere, and for the limit itself otherwise.
C15_LimitClamped ==
    \A c \in Calls : \A n \in LimitTools :
        Handling(c, n) =>
            LET lim == args[c].limit
                first == FirstOf(query[c])
            IN /\ (lim = Unset \/ lim = <<0>>) => first = ToString(DefaultOf(n))
               /\ (lim # Unset /\ lim[1] > CeilingOf(n)) =>
                     first = ToString(CeilingOf(n)) /\ ~Has(query[c], ToString(lim[1]))
               /\ (lim # Unset /\ lim[1] <= CeilingOf(n) /\ lim[1] # 0) =>
                     first = ToString(lim[1])

\* a clusters document with limit 501 is on the wire and asks for 500
C15_Witness ==
    /\ pc[1] = "request" /\ name[1] = "get_clusters"
    /\ args[1].limit = <<501>>
    /\ FirstOf(query[1]) = "500"

\* the optional filter fields of each tool, with the piece that opens their clause
ClauseFields(n) ==
    CASE n = "query_assets" ->
            {<<"asset_type", "assetType: \"">>, <<"status", "status: ">>, <<"filter", "filter: \"">>}
      [] n = "query_vulnerabilities" ->
            {<<"severity", "severity: ">>, <<"status", "status: ">>, <<"cve_id", "cveId: \"">>,
             <<"filter", "filter: \"">>}
      [] n = "query_findings" ->
            {<<"finding_type", "findingType: \"">>, <<"status", "status: ">>,
             <<"risk_score_min", "riskScoreMin: ">>, <<"risk_score_max", "riskScoreMax: ">>,
             <<"age_days", "discoveredAfter: \"-">>}
      [] n = "query_tickets" ->
            {<<"status", "status: ">>, <<"priority", "priority: ">>, <<"assignee", "assignee: \"">>,
             <<"sla_status", "slaStatus: ">>}
      [] n = "get_connectors" ->
            {<<"connector_type", "connectorType: \"">>, <<"status", "status: ">>}
      [] n = "get_clusters" -> {<<"cluster_type", "clusterType: \"">>}
      [] OTHER -> {}

\* C16: the clause of an optional string or number filter field is in the
\* document exactly when the field is defined, 0 and "" included.
C16_ClauseWhenDefined ==
    \A c \in Calls :
        pc[c] # "idle" =>
            \A f \in ClauseFields(name[c]) :
                args[c][f[1]] # Unset <=> Has(query[c], f[2])

\* the inclusion flags of each tool, with the nested block each one asks for
BlockFlags(n) ==
    CASE n = "query_vulnerabilities" ->
            {<<"include_affected_assets", "affectedAssets { id name assetType }">>}
      [] n = "get_risk_scores" ->
            {<<"include_factors", "riskFactors { name weight score description }">>,
             <<"include_trends", "riskTrends { date score changePercent }">>}
      [] n = "get_connectors" ->
            {<<"include_sync_history",
               "syncHistory { syncId startTime endTime status recordsProcessed errorsCount }">>}
      [] n = "get_data_models" ->
            {<<"include_attributes", "attributes { name type description required indexed }">>,
             <<"include_relationships",
               "relationships { name targetModel cardinality description }">>}
      [] OTHER -> {}

\* C17: the nested block of an inclusion flag is in the document if and only
\* if the flag is true; with the flag false or unset the document is the one
\* built with the flag true less that block: nothing stands in its place.
C17_BlockIffFlag ==
    \A c \in Calls :
        pc[c] # "idle" =>
            \A f \in BlockFlags(name[c]) :
                IF args[c][f[1]] = <<TRUE>>
                THEN Has(query[c], f[2])
                ELSE /\ ~Has(query[c], f[2])
                     /\ query[c] =
                          Without(RequestBody(name[c], [args[c] EXCEPT ![f[1]] = <<TRUE>>]), f[2])

\* a risk document on the wire has the trends block, asked for, and no factors block, refused
C17_Witness ==
    /\ pc[1] = "request" /\ name[1] = "get_risk_scores"
    /\ args[1].include_trends = <<TRUE>> /\ args[1].include_factors = <<FALSE>>
    /\ Has(query[1], "riskTrends { date score changePercent }")
    /\ ~Has(query[1], "riskFactors { name weight score description }")

\* C18: the risk document is the single-entity lookup asset(id: entity_id)
\* if and only if scope is ASSET and entity_id is a non-empty identifier;
\* otherwise it is the riskSummary document; it never has pieces of both.
C18_RiskScoreShape ==
    \A c \in Calls :
        Handling(c, "get_risk_scores") =>
            LET a == args[c]
                doc == query[c]
            IN IF a.scope = <<"ASSET">> /\ a.entity_id \notin {Unset, <<"">>}
               THEN /\ SubSeq(doc, 1, 5) =
                          <<"query GetAssetRiskScore {", "asset", "(id: \"", a.entity_id[1], "\")">>
                    /\ ~Has(doc, "riskSummary")
               ELSE /\ SubSeq(doc, 1, 2) = <<"query GetRiskScores {", "riskSummary">>
                    /\ ~Has(doc, "asset") /\ ~Has(doc, "(id: \"")

\* scope ASSET with entity_id "Host": the lookup document is on the wire
C18_Witness ==
    /\ pc[1] = "request" /\ name[1] = "get_risk_scores"
    /\ args[1].scope = <<"ASSET">> /\ args[1].entity_id = <<"Host">>
    /\ Has(query[1], "asset") /\ Has(query[1], "Host")

\* C19: an execute_graphql call whose query text is empty or missing fails at
\* once, before any network request: no login request, no GraphQL request,
\* and the session as it was.  (The failure is to be a ValidationError; the
\* formula asks only for a failure.)
C19_EmptyQueryRejected ==
    [][\A c \in Calls :
        (Starts(c) /\ name'[c] = "execute_graphql" /\ args'[c].query \in {Unset, <<"">>}) =>
            /\ pc'[c] = "done"
            /\ outcome'[c].threw
            /\ stats'[c].requests = 0
            /\ accessToken' = accessToken
            /\ tokenExpiry' = tokenExpiry]_vars

\* the arguments of each tool that carry caller text into the request
TextFields(n) ==
    IF n = "execute_graphql" THEN {"query"}
    ELSE IF n = "get_risk_scores" THEN {"entity_id"}
    ELSE IF n = "get_data_models" THEN {"model_name"}
    ELSE {f[1] : f \in {g \in ClauseFields(n) : g[1] \in
            {"asset_type", "filter", "cve_id", "finding_type", "assignee", "connector_type",
             "cluster_type"}}}

Hostile(n, a) == \E f \in TextFields(n) : \E v \in InjectionValues : a[f] = <<v>>

\* C20: a call whose raw query or filter value holds a clause-terminator
\* sequence fails at once, before any network request; no request in flight
\* carries such a value.  (The failure is to be a ValidationError; the
\* formula asks only for a failure.)
C20_InjectionRejected ==
    /\ [][\A c \in Calls :
            (Starts(c) /\ Hostile(name'[c], args'[c])) =>
                /\ pc'[c] = "done"
                /\ outcome'[c].threw
                /\ stats'[c].requests = 0]_vars
    /\ [](\A c \in Calls :
            pc[c] = "request" => \A v \in InjectionValues : ~Has(query[c], v))

\* the most specific message of a failed request: the remote one if there is one
Specific(r) == IF r.remote \notin {Undefined, ""} THEN r.remote ELSE "transport-msg"

\* the message the failure of call c in this step is to carry
FailureMessage(c) ==
    IF name'[c] \notin ToolNames THEN <<"Unknown tool: ", name'[c]>>
    ELSE IF pc[c] = "idle" THEN
        <<"Authentication credentials not configured. Set BRINQA_USERNAME and BRINQA_PASSWORD or BRINQA_API_KEY.">>
    ELSE IF pc[c] = "login" THEN <<"Authentication failed: ", Specific(reply'[c])>>
    ELSE IF reply'[c].kind = "error" THEN
        <<IF tool[c] = "graphql" THEN "GraphQL request failed: "
          ELSE "Brinqa Connect API request failed: ", Specific(reply'[c])>>
    ELSE IF Len(reply'[c].errors) > 0 THEN <<"GraphQL errors: ">> \o Join(reply'[c].errors, "; ")
    ELSE <<"No data returned from GraphQL query">>

\* C21: a call that ends in a failure of any class ends with a result
\* flagged isError whose text is "Error: " and the most specific message of
\* that failure; a call that ends otherwise is not flagged; a finished call
\* is handed back, the session untouched, and the server takes the next call.
C21_FailureIsResult ==
    /\ [][\A c \in Calls :
            (pc[c] # "done" /\ pc'[c] = "done") =>
                LET r == ToolResult(outcome'[c])
                IN IF outcome'[c].threw
                   THEN r.isError /\ r.text = <<"Error: ">> \o FailureMessage(c)
                   ELSE ~r.isError]_vars
    /\ [][\A c \in Calls :
            pc[c] = "done" =>
                pc'[c] = "idle" /\ accessToken' = accessToken /\ tokenExpiry' = tokenExpiry]_vars
    /\ [](pc[1] = "idle" => ENABLED CallTool(1))

\* a call for a tool the server does not know has failed, on a server that holds a session from an earlier call
C21_Witness ==
    /\ accessToken # Null
    /\ pc[1] = "done" /\ name[1] = "no_such_tool"
    /\ ToolResult(outcome[1]) = [isError |-> TRUE, text |-> <<"Error: ", "Unknown tool: ", "no_such_tool">>]

\* the selection of an assets document: the pieces between ") {" and the closing braces
SelectionOf(doc) ==
    SubSeq(doc, (CHOOSE i \in DOMAIN doc : doc[i] = ") {") + 1, Len(doc) - 1)

C23_SessionPairConsistent ==
    \/ accessToken = Null /\ tokenExpiry = 0
    \/ /\ env.BRINQA_API_KEY # ""
       /\ accessToken = env.BRINQA_API_KEY
       /\ \E k \in 1 .. ticks + 1 : tokenExpiry = k * TickMs + 24 * 60 * 60 * 1000
    \/ /\ env.BRINQA_API_KEY = ""
       /\ accessToken \in {"t1", "t2"}
       /\ accessToken = issued.token
       /\ tokenExpiry = issued.at + (issued.lifetime - 300) * 1000

\* one call's 401 has cleared the session and its login is in flight while the other call's request is in flight
C23_Witness ==
    /\ accessToken = Null /\ tokenExpiry = 0
    /\ \E c, d \in Calls :
        /\ pc[c] = "login" /\ reply[c].status = 401
        /\ pc[d] = "request" /\ headers[d].Authorization[2] \in {"t1", "t2"}

SingleRoot(n) ==
    CASE n = "query_assets" -> "assets"
      [] n = "query_vulnerabilities" -> "vulnerabilities"
      [] n = "query_findings" -> "findings"
      [] n = "query_tickets" -> "tickets"
      [] n = "get_connectors" -> "connectors"
      [] n = "get_clusters" -> "clusters"
      [] n = "get_data_models" -> "dataModels"

\* C25 as stated: risk scores apart, every builder (data models included)
\* gives documents of one shape, with one and the same root field, for every
\* QuerySpec.
C25_OnlyRiskHasTwoShapes ==
    \A c \in Calls :
        (pc[c] # "idle" /\ name[c] \in ToolNames \ {"get_risk_scores", "execute_graphql", "connect_ingest_data"}) =>
            query[c][2] = SingleRoot(name[c])

\* C25: two builders choose between two templates by a guard: risk scores
\* (asset lookup or riskSummary) and data models (dataModel(name: ...) when
\* model_name is a non-empty name, dataModels otherwise); the other six
\* builders give one root field for every QuerySpec.
C25_TwoGuardedBuilders ==
    \A c \in Calls :
        pc[c] # "idle" =>
            /\ name[c] \in {"query_assets", "query_vulnerabilities", "query_findings",
                            "query_tickets", "get_connectors", "get_clusters"} =>
                    query[c][2] = SingleRoot(name[c])
            /\ name[c] = "get_risk_scores" => query[c][2] \in {"asset", "riskSummary"}
            /\ name[c] = "get_data_models" =>
                    IF args[c].model_name \notin {Unset, <<"">>}
                    THEN SubSeq(query[c], 1, 5) =
                            <<"query GetDataModel {", "dataModel", "(name: \"",
                              args[c].model_name[1], "\")">>
                    ELSE SubSeq(query[c], 1, 3) = <<"query GetDataModels {", "dataModels", "{">>

\* the data-model document on the wire is the lookup of the model Host
C25_Witness ==
    /\ pc[1] = "request" /\ name[1] = "get_data_models"
    /\ args[1].model_name = <<"Host">>
    /\ query[1][2] = "dataModel"

\* call c hands a main request to the network in this step
Sends(c) == pc'[c] = "request" /\ (pc[c] # "request" \/ GraphQL401(c))

C27_StaleUnauthorizedKeepsSession ==
    [][\A c \in Calls :
        (/\ GraphQL401(c)
         /\ accessToken # Null
         /\ accessToken # headers[c].Authorization[2]) =>
            accessToken' = accessToken /\ tokenExpiry' = tokenExpiry]_vars

\* C28: when the login that follows a 401 fails, the call ends with that
\* authentication error, sends no further main request, and leaves the
\* session absent; a call that starts on an absent session authenticates in
\* full.
C28_ReauthFailure ==
    /\ [][\A c \in Calls :
            (pc[c] = "login" /\ stats[c].requests >= 1 /\ pc'[c] = "done") =>
                /\ outcome'[c] = [threw |-> TRUE,
                                  value |-> <<"Authentication failed: ", Specific(reply'[c])>>]
                /\ stats'[c].requests = stats[c].requests
                /\ accessToken' = Null /\ tokenExpiry' = 0]_vars
    /\ [][\A c \in Calls :
            (Starts(c) /\ name'[c] \in ToolNames /\ accessToken = Null) =>
                stats'[c].path \in {"login", "apikey", "unconfigured"}]_vars

\* a call has ended in an authentication error after one main request, and the session is absent
C28_Witness ==
    /\ accessToken = Null /\ tokenExpiry = 0
    /\ pc[1] = "done" /\ stats[1].requests = 1
    /\ outcome[1].threw /\ outcome[1].value[1] = "Authentication failed: "

\* C29: whatever integer the caller gives as limit, zero and negative ones
\* included, the count in nodes(first: ...) is at least 1 and at most the
\* builder's ceiling.
C29_CountWithinOneAndCeiling ==
    \A c \in Calls : \A n \in LimitTools :
        Handling(c, n) =>
            \E k \in 1 .. CeilingOf(n) : FirstOf(query[c]) = ToString(k)

\* C30: right after a login is answered the session is valid, whatever
\* lifetime the answer reports, so a call that starts at that instant
\* reuses it.
C30_ValidAfterLogin ==
    [][\A c \in Calls :
        (pc[c] = "login" /\ pc'[c] = "request") => now < tokenExpiry']_vars
====
